---- MODULE Spec2Model ----
(***************************************************************************)
(* SMS ingestion pipeline of Pico: the spool-directory watcher, the bridge *)
(* onto the asyncio event loop, the per-(phone, serial) reassembly buffer  *)
(* with its debounce timers, and the flush to the sink.                    *)
(*                                                                         *)
(* Two implementations live in the repository and are both modelled; the   *)
(* variable impl selects one:                                              *)
(*   "services"  src/services/sms.py  (sink: core.bark.BarkClient.send)     *)
(*   "sdk"       src/sdk/sms.py       (sink: asyncio.Queue of monitor_inbox)*)
(*                                                                         *)
(* Time is counted in whole seconds.  The event loop sleeps (time passes)  *)
(* only when no handle is ready and no timer is due; a callback itself     *)
(* takes no time.  The watcher thread may hand work to the loop at any     *)
(* moment, between any two callbacks.                                      *)
(***************************************************************************)
EXTENDS Integers, Sequences, FiniteSets, TLC

\* ------------------------------------------------------------------ bounds
\* number of file-created events the environment produces in one run
MaxFiles == 3
\* number of segment files of one burst from a single sender
MaxBurst == 4
\* number of segments in a stream of segments of one (phone, serial)
MaxStream == 3
\* number of file-created events in a run during which the directory is scanned
MaxBoth == 2
\* number of paths in the spool directory when it is scanned
MaxScanFiles == 3
\* greatest limit a scan is called with
MaxLimit == 3
\* number of file-created events in a run that is stopped
MaxStop == 2
\* number of add_part calls made on an assembler taken on its own
MaxCalls == 3
\* number of file-created events in a run of the loop left to itself
MaxLive == 2
\* number of file-created events while monitor_inbox is consumed
MaxMonitor == 3
\* the longest sender in the names given to the codec
MaxSender == 3

\* -------------------------------------------------------- program constants
\* SMSAssembler.timeout, seconds to wait for other parts
Timeout == 5

\* Python's None, where it stands for a loop, a timer handle and a match
None == "None"
NoTimer == 0
NoMatch == [matched |-> FALSE]
NoScan == [who |-> "nobody"]
NoFile == 0
\* the watcher thread between two events and the loop thread running
NoThreads == [watcher |-> "idle", event |-> NoFile, main |-> "running", overlapped |-> FALSE]
\* the consumer of monitor_inbox before it has been yielded anything
NoConsumer == [at |-> "iterating", got |-> <<>>]
NoParse == [name |-> <<>>, returned |-> FALSE, result |-> NoMatch]

\* ------------------------------------------------------------- filenames
\* A filename is a tuple of one-character strings.
Digits == {"0", "1", "2", "3", "4", "5", "6", "7", "8", "9"}

DigitVal(c) ==
  CASE c = "0" -> 0 [] c = "1" -> 1 [] c = "2" -> 2 [] c = "3" -> 3
    [] c = "4" -> 4 [] c = "5" -> 5 [] c = "6" -> 6 [] c = "7" -> 7
    [] c = "8" -> 8 [] c = "9" -> 9

AllDigits(s) == \A i \in 1..Len(s) : s[i] \in Digits

\* int(seq_str) for a string of decimal digits
RECURSIVE int(_)
int(s) == IF s = <<>> THEN 0 ELSE 10 * int(SubSeq(s, 1, Len(s) - 1)) + DigitVal(s[Len(s)])

\* The part of the name the pattern has to cover: "$" matches at the end of
\* the string and also just before one trailing newline.
MatchBody(fn) ==
  IF Len(fn) > 0 /\ fn[Len(fn)] = "\n" THEN SubSeq(fn, 1, Len(fn) - 1) ELSE fn

\* FILENAME_PATTERN = ^IN(\d{8})_(\d{6})_(\d{2})_(.*)_(\d{2})\.txt$
\* Every field but the sender has a fixed width, so the greedy (.*) is what
\* lies between the 21-character head and the 7-character tail.
FILENAME_PATTERN_match(fn) ==
  LET b == MatchBody(fn)
      n == Len(b)
  IN  /\ n >= 28
      /\ SubSeq(b, 1, 2) = <<"I", "N">>
      /\ AllDigits(SubSeq(b, 3, 10))
      /\ b[11] = "_"
      /\ AllDigits(SubSeq(b, 12, 17))
      /\ b[18] = "_"
      /\ AllDigits(SubSeq(b, 19, 20))
      /\ b[21] = "_"
      /\ \A i \in 22..(n - 7) : b[i] /= "\n"
      /\ b[n - 6] = "_"
      /\ AllDigits(SubSeq(b, n - 5, n - 4))
      /\ SubSeq(b, n - 3, n) = <<".", "t", "x", "t">>

\* a codec that takes the sender as the fourth field of name.split("_"): it
\* ends at the sender's first underscore
parse_filename_split(fn) ==
  IF ~FILENAME_PATTERN_match(fn) THEN NoMatch
  ELSE LET b == MatchBody(fn)
           n == Len(b)
           stops == {i \in 22..(n - 7) : b[i] = "_"} \cup {n - 6}
           stop == CHOOSE i \in stops : \A j \in stops : i <= j
       IN  [date   |-> SubSeq(b, 3, 10),
            time   |-> SubSeq(b, 12, 17),
            serial |-> SubSeq(b, 19, 20),
            phone  |-> SubSeq(b, 22, stop - 1),
            seq    |-> int(SubSeq(b, n - 5, n - 4))]

\* a codec whose sender group is ([^_]*): a sender with an underscore is no match
parse_filename_plain(fn) ==
  IF ~FILENAME_PATTERN_match(fn) THEN NoMatch
  ELSE LET b == MatchBody(fn)
           n == Len(b)
       IN  IF \E i \in 22..(n - 7) : b[i] = "_" THEN NoMatch
           ELSE [date   |-> SubSeq(b, 3, 10),
                 time   |-> SubSeq(b, 12, 17),
                 serial |-> SubSeq(b, 19, 20),
                 phone  |-> SubSeq(b, 22, n - 7),
                 seq    |-> int(SubSeq(b, n - 5, n - 4))]

\* parse_filename: the five groups, seq converted with int(); NoMatch for None
parse_filename(fn) ==
  IF ~FILENAME_PATTERN_match(fn) THEN NoMatch
  ELSE LET b == MatchBody(fn)
           n == Len(b)
       IN  [date   |-> SubSeq(b, 3, 10),
            time   |-> SubSeq(b, 12, 17),
            serial |-> SubSeq(b, 19, 20),
            phone  |-> SubSeq(b, 22, n - 7),
            seq    |-> int(SubSeq(b, n - 5, n - 4))]

\* ------------------------------------------------- the environment's files
DateA == <<"2", "0", "2", "5", "1", "2", "1", "0">>
TimeA == <<"0", "0", "1", "0", "0", "0">>
TimeB == <<"0", "0", "1", "0", "0", "7">>
DateB == <<"2", "0", "2", "4", "1", "2", "3", "1">>

GammuName(date, time, serial, phone, seq) ==
  <<"I", "N">> \o date \o <<"_">> \o time \o <<"_">> \o serial \o <<"_">>
    \o phone \o <<"_">> \o seq \o <<".", "t", "x", "t">>

\* The paths the modem daemon (or anything else) may create in the spool
\* directory, their content, and whether the path is a directory.
SpoolEntry(f) ==
  CASE f = 1 -> [name |-> GammuName(DateA, TimeA, <<"0", "0">>, <<"X">>, <<"0", "1">>),
                 text |-> "Hello ", is_directory |-> FALSE]
    [] f = 2 -> [name |-> GammuName(DateA, TimeA, <<"0", "0">>, <<"X">>, <<"0", "0">>),
                 text |-> "World: ", is_directory |-> FALSE]
    [] f = 3 -> [name |-> GammuName(DateA, TimeB, <<"0", "0">>, <<"X">>, <<"0", "0">>),
                 text |-> "Again ", is_directory |-> FALSE]
    [] f = 4 -> [name |-> GammuName(DateA, TimeB, <<"0", "0">>, <<"X">>, <<"0", "2">>),
                 text |-> "Bye", is_directory |-> FALSE]
    [] f = 5 -> [name |-> GammuName(DateA, TimeA, <<"0", "0">>, <<"Y">>, <<"0", "0">>),
                 text |-> "Other", is_directory |-> FALSE]
    [] f = 6 -> [name |-> <<"O", "U", "T">> \o DateA \o <<".", "t", "x", "t">>,
                 text |-> "junk", is_directory |-> FALSE]
    [] f = 7 -> [name |-> <<"t", "m", "p">>,
                 text |-> "", is_directory |-> TRUE]
    [] f = 8 -> [name |-> GammuName(DateA, TimeA, <<"0", "0">>, <<"X">>, <<"0", "0">>)
                            \o <<"\n">>,
                 text |-> "Dup ", is_directory |-> FALSE]
    [] f = 9 -> [name |-> GammuName(DateB, TimeB, <<"0", "0">>, <<"X">>, <<"0", "0">>),
                 text |-> "Old", is_directory |-> FALSE]

Files == 1..9

\* segment files of one (phone, serial)
BurstFiles == {1, 2, 3, 4}
\* a mixed spool: three segments of X, one of Y, a foreign file, a directory
MixedFiles == {1, 2, 3, 5, 6, 7}
\* the segments of one (phone, serial) that arrive one after the other
StreamFiles == {1, 2, 4}
\* two segments of one message, one of a later message of the same sender and
\* serial, and a foreign file
BothFiles == {1, 2, 3, 6}
\* what a scan may find: the above, a name that differs from another one by a
\* trailing newline only, and a segment of the year before
ScanPaths == {1, 2, 3, 4, 5, 6, 8, 9}


\* ------------------------------------------------------------------ state
VARIABLES
  impl,      \* which implementation runs: "services" or "sdk"
  env,       \* environment: the paths it may create, how many it creates, and
             \*   whether the run records waiting times
  inbox,     \* the spool directory: its state and the os.makedirs calls made
  observer,  \* watchdog Observer: "init", "alive", "inert", "raised", "stopped"
  loop,      \* SMSAssembler.loop: None until set
  spool,     \* files present in the spool directory
  buffer,    \* SMSAssembler.buffer: key -> group, defined on the pending keys
  timers,    \* every TimerHandle call_later has returned, by creation order
  ready,     \* the event loop's FIFO of ready handles
  reads,     \* sdk: files whose aiofiles read is in progress
  emitted,   \* messages handed to the sink, in flush order
  addCalls,  \* history: file -> number of add_part executions for its event
  accepted,  \* history: files whose name parsed and whose read succeeded
  created,   \* history: number of groups add_part has created
  touched,   \* history: threads that have executed buffer code
  opened,    \* history: file -> times the live handler has opened it (n) and
             \*   the paths it had dropped before (prior)
  scan,      \* the last directory scan: who ran it, its inputs and what it returned
  parsed,    \* the codec's last call: the name given, and the result once returned
  consumer,  \* sdk: where the consumer of monitor_inbox stands (at), and the
             \*   messages it was yielded, by their place in emitted (got)
  threads    \* where the watcher thread stands (watcher) and the event it is
             \*   handling, and whether the loop thread is blocked in join (main)

vars == <<impl, env, inbox, observer, loop, spool, buffer, timers, ready, reads, emitted,
          addCalls, accepted, created, touched, opened, scan, parsed, consumer, threads>>

\* --------------------------------------------------------------- helpers
\* number of messages already emitted for a key
EmittedCount(key) == Cardinality({i \in 1..Len(emitted) : emitted[i].key = key})

\* a flush task for the key has been created and has not run yet
FlushPending(key) ==
  \E i \in 1..Len(ready) : ready[i].kind = "flush" /\ ready[i].arg.key = key

\* the handle has been called: its flush task exists
HasFired(id) == id /= NoTimer /\ timers[id].state = "run"

\* the created paths the live handler is done with without having passed
\* their content on: directories, names that do not match, failed reads
Dropped ==
  {g \in spool :
     /\ g \notin accepted
     /\ g \notin reads
     /\ \A n \in 1..Len(ready) :
          /\ ready[n].kind \in {"spawn", "read_task"} => ready[n].arg /= g
          /\ ready[n].kind = "read_done" => ready[n].arg.f /= g}

\* variant: a sort that puts a part before the earlier parts of its sequence number
RECURSIVE InsertStable_before(_, _)
InsertStable_before(sorted, p) ==
  IF sorted = <<>> THEN <<p>>
  ELSE IF sorted[Len(sorted)].seq < p.seq THEN Append(sorted, p)
  ELSE Append(InsertStable_before(SubSeq(sorted, 1, Len(sorted) - 1), p), sorted[Len(sorted)])

\* list.sort(key=lambda x: x[0]) / sorted(..., key=...): stable, ascending
RECURSIVE InsertStable(_, _)
InsertStable(sorted, p) ==
  IF sorted = <<>> THEN <<p>>
  ELSE IF sorted[Len(sorted)].seq <= p.seq THEN Append(sorted, p)
  ELSE Append(InsertStable(SubSeq(sorted, 1, Len(sorted) - 1), p), sorted[Len(sorted)])

\* variant: the parts are joined in arrival order, the sort is missing
SortBySeq_arrival(parts) == parts

RECURSIVE SortBySeq(_)
SortBySeq(parts) ==
  IF parts = <<>> THEN <<>>
  ELSE InsertStable(SortBySeq(SubSeq(parts, 1, Len(parts) - 1)), parts[Len(parts)])

\* "".join([p[1] for p in parts])
RECURSIVE Join(_)
Join(parts) == IF parts = <<>> THEN "" ELSE parts[1].text \o Join(Tail(parts))

\* TimerHandle.cancel(): a handle that has not run yet will never run
Cancel(ts, id) ==
  IF ts[id].state \in {"scheduled", "ready"}
  THEN [ts EXCEPT ![id].state = "cancelled", ![id].left = 0]
  ELSE ts

\* variant: the timer is armed for one second more than the timeout
call_later_slow(ts, key) == Append(ts, [key |-> key, left |-> Timeout + 1, state |-> "scheduled"])

\* variant: the handle returned is one the loop never calls
call_later_dead(ts, key) == Append(ts, [key |-> key, left |-> Timeout, state |-> "cancelled"])

\* loop.call_later(self.timeout, lambda: asyncio.create_task(flush(key)))
call_later(ts, key) == Append(ts, [key |-> key, left |-> Timeout, state |-> "scheduled"])

Handle(kind, arg) == [kind |-> kind, arg |-> arg]

Min(a, b) == IF a <= b THEN a ELSE b

\* history: the seconds, counted up to Timeout, since the previous segment of
\* the key was added; Timeout when there was none
SinceLastPart(key) ==
  IF key \in DOMAIN buffer THEN Min(buffer[key].age, Timeout)
  ELSE IF EmittedCount(key) = 0 THEN Timeout
  ELSE LET last == CHOOSE i \in 1..Len(emitted) :
                      /\ emitted[i].key = key
                      /\ \A j \in 1..Len(emitted) : emitted[j].key = key => j <= i
       IN  Min(emitted[last].age + emitted[last].since, Timeout)

\* history: the file of the segment of the key that was added last and has
\* been flushed since
LastPart(key) ==
  LET last == CHOOSE i \in 1..Len(emitted) :
                 /\ emitted[i].key = key
                 /\ \A j \in 1..Len(emitted) : emitted[j].key = key => j <= i
  IN  emitted[last].parts[Len(emitted[last].parts)].src

\* ------------------------------------------------------------- operations
\* SMSAssembler.add_part, executed by the given thread.  History only: of a
\* group, age (seconds since its last segment), waited (seconds since its
\* first segment, counted in the runs that measure latency, env.clock) and
\* raced (a segment joined it after its timer had fired); of a part, src (the
\* file), timer (the handle its add_part scheduled), after (messages of the
\* key emitted before it was added) and splitFrom (the previous
\* segment of the key, when this one started a new group less than Timeout
\* seconds after it).
add_part(thread, phone, serial, seq, text, src) ==
  LET key   == <<phone, serial>>
      g0    == IF key \in DOMAIN buffer THEN buffer[key]
               ELSE [parts |-> <<>>, timer |-> NoTimer, age |-> 0, raced |-> FALSE,
                     waited |-> 0]
      sched == impl = "sdk" \/ loop /= None
      part  == [seq |-> seq, text |-> text, src |-> src, after |-> EmittedCount(key),
                timer |-> IF sched THEN Len(timers) + 1 ELSE NoTimer,
                splitFrom |-> IF key \notin DOMAIN buffer /\ SinceLastPart(key) < Timeout
                              THEN LastPart(key) ELSE NoFile]
      ts0   == IF g0.timer /= NoTimer THEN Cancel(timers, g0.timer) ELSE timers
      g1    == [parts |-> Append(g0.parts, part),
                timer |-> IF sched THEN Len(timers) + 1 ELSE g0.timer,
                age   |-> 0,
                raced |-> g0.raced \/ HasFired(g0.timer),
                waited |-> g0.waited]
  IN  /\ buffer' = [k \in DOMAIN buffer \cup {key} |-> IF k = key THEN g1 ELSE buffer[k]]
      /\ timers' = IF sched THEN call_later(ts0, key) ELSE ts0
      /\ addCalls' = [addCalls EXCEPT ![src] = @ + 1]
      /\ created' = IF key \in DOMAIN buffer THEN created ELSE created + 1
      /\ touched' = touched \cup {thread}

\* variant: the flush reads the group with buffer[key] and leaves it in the map
process_buffer_keep(thread, key, gen, by) ==
  /\ touched' = touched \cup {thread}
  /\ UNCHANGED <<timers, addCalls, created, buffer>>
  /\ IF key \notin DOMAIN buffer
     THEN UNCHANGED emitted
     ELSE LET data == buffer[key]
          IN  emitted' = Append(emitted,
                    [key |-> key, phone |-> key[1], text |-> Join(SortBySeq(data.parts)),
                     parts |-> data.parts, age |-> data.age, raced |-> data.raced,
                     waited |-> data.waited,
                     gen |-> gen, by |-> by, since |-> 0,
                     sawFailure |-> \E i \in 1..Len(emitted) : emitted[i].status = "raised",
                     status |-> IF impl = "sdk" THEN "queued" ELSE "pending"])

\* variant: the flush empties the whole map instead of popping its key
process_buffer_clear(thread, key, gen, by) ==
  /\ touched' = touched \cup {thread}
  /\ UNCHANGED <<timers, addCalls, created>>
  /\ IF key \notin DOMAIN buffer
     THEN UNCHANGED <<buffer, emitted>>
     ELSE LET data == buffer[key]
          IN  /\ buffer' = <<>>
              /\ emitted' = Append(emitted,
                    [key |-> key, phone |-> key[1], text |-> Join(SortBySeq(data.parts)),
                     parts |-> data.parts, age |-> data.age, raced |-> data.raced,
                     waited |-> data.waited,
                     gen |-> gen, by |-> by, since |-> 0,
                     sawFailure |-> \E i \in 1..Len(emitted) : emitted[i].status = "raised",
                     status |-> IF impl = "sdk" THEN "queued" ELSE "pending"])

\* SMSAssembler.process_buffer / _flush_buffer up to the hand-off to the sink.
\* History only: gen, the number of messages of the key emitted before the
\* task was created, by, the timer whose callback created the task, and in
\* the message parts, age, raced, gen, by, sawFailure
\* and since (seconds since the flush, counted while age + since < Timeout).
process_buffer(thread, key, gen, by) ==
  /\ touched' = touched \cup {thread}
  /\ UNCHANGED <<timers, addCalls, created>>
  /\ IF key \notin DOMAIN buffer
     THEN UNCHANGED <<buffer, emitted>>
     ELSE LET data == buffer[key]
              parts == SortBySeq(data.parts)
              full_text == Join(parts)
          IN  /\ buffer' = [k \in DOMAIN buffer \ {key} |-> buffer[k]]
              /\ emitted' = Append(emitted,
                    [key |-> key, phone |-> key[1], text |-> full_text,
                     parts |-> data.parts, age |-> data.age, raced |-> data.raced,
                     waited |-> data.waited,
                     gen |-> gen, by |-> by, since |-> 0,
                     sawFailure |-> \E i \in 1..Len(emitted) : emitted[i].status = "raised",
                     status |-> IF impl = "sdk" THEN "queued" ELSE "pending"])

\* the lambda of call_later: asyncio.create_task(flush(key)); a cancelled
\* handle is dropped by the loop without being called
timer_callback(thread, id, rest) ==
  IF timers[id].state = "cancelled"
  THEN /\ ready' = rest
       /\ UNCHANGED <<timers, touched>>
  ELSE /\ timers' = [timers EXCEPT ![id].state = "run"]
       /\ ready' = Append(rest, Handle("flush",
              [key |-> timers[id].key, gen |-> EmittedCount(timers[id].key), by |-> id]))
       /\ touched' = touched \cup {thread}


\* --------------------------------------------------------------- actions
InitEnv(paths, count, clock) ==
  /\ impl \in {"services", "sdk"}
  /\ env = [paths |-> paths, count |-> count, clock |-> clock]
  /\ inbox = [dir |-> "present", makedirs |-> <<>>]
  /\ opened = [f \in Files |-> [n |-> 0, prior |-> {}]]
  /\ scan = NoScan
  /\ parsed = NoParse
  /\ consumer = NoConsumer
  /\ threads = NoThreads
  /\ observer = "init"
  /\ loop = None
  /\ spool = {}
  /\ buffer = <<>>
  /\ timers = <<>>
  /\ ready = <<>>
  /\ reads = {}
  /\ emitted = <<>>
  /\ addCalls = [f \in Files |-> 0]
  /\ accepted = {}
  /\ created = 0
  /\ touched = {}

InitWith(paths, count) == InitEnv(paths, count, FALSE)

\* a mixed spool
Init == InitWith(MixedFiles, MaxFiles)

\* a burst of segments of one sender
InitBurst == InitWith(BurstFiles, MaxBurst)

\* a stream of segments of one (phone, serial), with the waiting times recorded
InitStream == InitEnv(StreamFiles, MaxStream, TRUE)

\* a start against a spool directory that may be missing, or present but not
\* readable and writable (checked by the service only)
InitLife ==
  /\ impl \in {"services", "sdk"}
  /\ env = [paths |-> MixedFiles, count |-> MaxFiles, clock |-> FALSE]
  /\ inbox \in {[dir |-> d, makedirs |-> <<>>] :
                  d \in IF impl = "services" THEN {"present", "missing", "noaccess"}
                                              ELSE {"present", "missing"}}
  /\ opened = [f \in Files |-> [n |-> 0, prior |-> {}]]
  /\ scan = NoScan
  /\ parsed = NoParse
  /\ consumer = NoConsumer
  /\ threads = NoThreads
  /\ observer = "init"
  /\ loop = None
  /\ spool = {}
  /\ buffer = <<>>
  /\ timers = <<>>
  /\ ready = <<>>
  /\ reads = {}
  /\ emitted = <<>>
  /\ addCalls = [f \in Files |-> 0]
  /\ accepted = {}
  /\ created = 0
  /\ touched = {}

\* what os.makedirs does: it creates the directory, or raises PermissionError,
\* or raises another OSError (read-only file system, a path component that
\* is a file, no space left, ...)
MakedirsOutcomes == {"created", "PermissionError", "OSError"}

\* the exceptions of os.makedirs that the except clause around it catches
\* (PermissionError is a subclass of OSError)
Caught == IF impl = "services" THEN {"PermissionError"} ELSE {"PermissionError", "OSError"}

\* SMSService.start / the head of monitor_inbox: a missing directory is
\* created; the service checks access; the running loop is captured and given
\* to the assembler and the handler; then the observer starts.  observer
\* becomes "inert" when start returns early and "raised" when an exception
\* leaves start.  start is called from a coroutine of the running loop.
start ==
  /\ observer = "init"
  /\ \E made \in IF inbox.dir = "missing" THEN MakedirsOutcomes ELSE {"none"} :
       LET dir == IF made = "created" THEN "present" ELSE inbox.dir
           end == IF dir = "missing"
                  THEN IF made \in Caught THEN "inert" ELSE "raised"
                  ELSE IF impl = "services" /\ dir = "noaccess" THEN "inert"
                  ELSE "alive"
       IN  /\ inbox' = [dir |-> dir,
                        makedirs |-> IF made = "none" THEN inbox.makedirs
                                     ELSE Append(inbox.makedirs, made)]
           /\ observer' = end
           /\ loop' = IF end = "alive" THEN "loop" ELSE loop
  /\ UNCHANGED <<impl, env, parsed, threads, consumer, scan, opened, spool, buffer, timers, ready, reads, emitted,
                 addCalls, created, accepted, touched>>

\* variant: the handler calls assembler.add_part itself, on the watcher thread
SMSHandler_on_created_direct(f) ==
  LET e == SpoolEntry(f)
      meta == parse_filename(e.name)
  IN  /\ UNCHANGED <<ready, reads>>
      /\ IF e.is_directory \/ meta = NoMatch
         THEN UNCHANGED <<buffer, timers, addCalls, created, touched, accepted, opened>>
         ELSE /\ opened' = [opened EXCEPT ![f] = [n |-> @.n + 1, prior |-> Dropped]]
              /\ \E readOk \in BOOLEAN :
                   IF readOk /\ loop /= None
                   THEN /\ add_part("watcher", meta.phone, meta.serial, meta.seq, e.text, f)
                        /\ accepted' = accepted \cup {f}
                   ELSE UNCHANGED <<buffer, timers, addCalls, created, touched, accepted>>

\* variant: the handler marshals add_part onto the loop twice for one event
SMSHandler_on_created_twice(f) ==
  LET e == SpoolEntry(f)
      meta == parse_filename(e.name)
      h == IF meta = NoMatch THEN Handle("add_part", <<>>)
           ELSE Handle("add_part", [phone |-> meta.phone, serial |-> meta.serial,
                                    seq |-> meta.seq, text |-> e.text, src |-> f])
  IN  /\ UNCHANGED <<buffer, timers, addCalls, created, touched, reads>>
      /\ IF e.is_directory \/ meta = NoMatch
         THEN UNCHANGED <<ready, accepted, opened>>
         ELSE /\ opened' = [opened EXCEPT ![f] = [n |-> @.n + 1, prior |-> Dropped]]
              /\ \E readOk \in BOOLEAN :
                   IF readOk /\ loop /= None
                   THEN /\ ready' = ready \o <<h, h>>
                        /\ accepted' = accepted \cup {f}
                   ELSE UNCHANGED <<ready, accepted>>

\* SMSHandler.on_created on the watcher thread: match the name, read the
\* file (which may fail), and marshal add_part onto the loop
SMSHandler_on_created(f) ==
  LET e == SpoolEntry(f)
      meta == parse_filename(e.name)
  IN  /\ UNCHANGED <<buffer, timers, addCalls, created, touched, reads>>
      /\ IF e.is_directory \/ meta = NoMatch
         THEN UNCHANGED <<ready, accepted, opened>>
         ELSE /\ opened' = [opened EXCEPT ![f] = [n |-> @.n + 1, prior |-> Dropped]]
              /\ \E readOk \in BOOLEAN :
                   IF readOk /\ loop /= None
                   THEN /\ ready' = Append(ready, Handle("add_part",
                               [phone |-> meta.phone, serial |-> meta.serial,
                                seq |-> meta.seq, text |-> e.text, src |-> f]))
                        /\ accepted' = accepted \cup {f}
                   ELSE UNCHANGED <<ready, accepted>>

\* _WatchdogHandler.on_created on the watcher thread: marshal the creation
\* of the _read_and_assemble task onto the loop
WatchdogHandler_on_created(f) ==
  /\ UNCHANGED <<buffer, timers, addCalls, created, touched, reads, accepted, opened>>
  /\ IF SpoolEntry(f).is_directory
     THEN UNCHANGED ready
     ELSE ready' = Append(ready, Handle("spawn", f))

\* a path appears in the spool directory and the observer, while alive,
\* calls the handler once for it
on_created(f) ==
  /\ observer = "alive"
  /\ f \in env.paths
  /\ f \notin spool
  /\ Cardinality(spool) < env.count
  /\ spool' = spool \cup {f}
  /\ IF impl = "services" THEN SMSHandler_on_created(f) ELSE WatchdogHandler_on_created(f)
  /\ UNCHANGED <<impl, env, parsed, threads, consumer, inbox, scan, observer, loop, emitted>>

\* variant: the task opens the file before it looks at the name
read_and_assemble_begin_openfirst(f, rest) ==
  /\ ready' = rest
  /\ reads' = IF parse_filename(SpoolEntry(f).name) = NoMatch THEN reads ELSE reads \cup {f}
  /\ opened' = [opened EXCEPT ![f] = [n |-> @.n + 1, prior |-> Dropped]]
  /\ UNCHANGED <<buffer, timers, emitted, addCalls, created, touched>>

\* _read_and_assemble up to its first suspension: parse the name, start the read
read_and_assemble_begin(f, rest) ==
  /\ ready' = rest
  /\ reads' = IF parse_filename(SpoolEntry(f).name) = NoMatch THEN reads ELSE reads \cup {f}
  /\ opened' = IF parse_filename(SpoolEntry(f).name) = NoMatch THEN opened
                ELSE [opened EXCEPT ![f] = [n |-> @.n + 1, prior |-> Dropped]]
  /\ UNCHANGED <<buffer, timers, emitted, addCalls, created, touched>>

\* variant: after a failed read the task goes on with an empty content
read_and_assemble_resume_anyway(thread, f, readOk, rest) ==
  LET meta == parse_filename(SpoolEntry(f).name)
  IN  /\ ready' = rest
      /\ UNCHANGED <<reads, emitted, opened>>
      /\ add_part(thread, meta.phone, meta.serial, meta.seq,
                  IF readOk THEN SpoolEntry(f).text ELSE "", f)

\* _read_and_assemble after the read: add_part, or log the failure
read_and_assemble_resume(thread, f, readOk, rest) ==
  LET meta == parse_filename(SpoolEntry(f).name)
  IN  /\ ready' = rest
      /\ UNCHANGED <<reads, emitted, opened>>
      /\ IF readOk
         THEN add_part(thread, meta.phone, meta.serial, meta.seq, SpoolEntry(f).text, f)
         ELSE UNCHANGED <<buffer, timers, addCalls, created, touched>>

\* the event loop runs the handle at the head of its ready queue
RunReady ==
  /\ ready /= <<>>
  /\ LET h == Head(ready)
         rest == Tail(ready)
     IN  CASE h.kind = "timer" ->
                /\ timer_callback("loop", h.arg, rest)
                /\ UNCHANGED <<buffer, emitted, addCalls, created, reads, opened>>
           [] h.kind = "add_part" ->
                /\ add_part("loop", h.arg.phone, h.arg.serial, h.arg.seq, h.arg.text, h.arg.src)
                /\ ready' = rest
                /\ UNCHANGED <<emitted, reads, opened>>
           [] h.kind = "flush" ->
                /\ process_buffer("loop", h.arg.key, h.arg.gen, h.arg.by)
                /\ ready' = rest
                /\ UNCHANGED <<reads, opened>>
           [] h.kind = "spawn" ->
                /\ ready' = Append(rest, Handle("read_task", h.arg))
                /\ UNCHANGED <<buffer, timers, emitted, addCalls, created, touched, reads, opened>>
           [] h.kind = "read_task" ->
                read_and_assemble_begin(h.arg, rest)
           [] h.kind = "read_done" ->
                read_and_assemble_resume("loop", h.arg.f, h.arg.ok, rest)
  /\ UNCHANGED <<impl, env, parsed, threads, consumer, inbox, scan, observer, loop, spool, accepted>>

\* the aiofiles read of the sdk finishes, with the content or with an error,
\* and wakes the task up
ReadDone(f) ==
  /\ f \in reads
  /\ reads' = reads \ {f}
  /\ \E readOk \in BOOLEAN :
       /\ ready' = Append(ready, Handle("read_done", [f |-> f, ok |-> readOk]))
       /\ accepted' = IF readOk THEN accepted \cup {f} ELSE accepted
  /\ UNCHANGED <<impl, env, parsed, threads, consumer, inbox, scan, opened, observer, loop, spool, buffer, timers, emitted, addCalls, created, touched>>

\* a scheduled timer whose delay has elapsed is moved to the ready queue
TimerDue(id) ==
  /\ timers[id].state = "scheduled"
  /\ timers[id].left = 0
  /\ timers' = [timers EXCEPT ![id].state = "ready"]
  /\ ready' = Append(ready, Handle("timer", id))
  /\ UNCHANGED <<impl, env, parsed, threads, consumer, inbox, scan, opened, observer, loop, spool, buffer, reads, emitted, addCalls, created,
                 accepted, touched>>

\* the outcome of "await bark.send(...)" as process_buffer's try sees it:
\*   "returned"  send returned: the request succeeded, or BARK_URL is unset
\*               and send skipped it, or the request failed and send itself
\*               caught and logged the error
\*   "raised"    send raised; process_buffer's except caught and logged it
SinkOutcomes == {"returned", "raised"}

\* variant: an exception of send is not caught and takes the loop's
\* scheduled handles down with it
bark_send_done_fatal(i, outcome) ==
  /\ emitted[i].status = "pending"
  /\ emitted' = [emitted EXCEPT ![i].status = outcome]
  /\ timers' = IF outcome = "raised"
                THEN [id \in 1..Len(timers) |-> [timers[id] EXCEPT !.state = "cancelled", !.left = 0]]
                ELSE timers
  /\ UNCHANGED <<impl, env, parsed, threads, consumer, inbox, scan, opened, observer, loop, spool, buffer, ready, reads,
                 addCalls, created, accepted, touched>>

\* variant: on an exception the except branch puts the group back into the
\* map so that it is delivered again later
bark_send_done_restore(i, outcome) ==
  LET k == emitted[i].key
      old == IF k \in DOMAIN buffer THEN buffer[k].parts ELSE <<>>
      g == [parts |-> emitted[i].parts \o old,
            timer |-> IF k \in DOMAIN buffer THEN buffer[k].timer ELSE NoTimer,
            age |-> 0, raced |-> FALSE, waited |-> 0]
  IN  /\ emitted[i].status = "pending"
      /\ emitted' = [emitted EXCEPT ![i].status = outcome]
      /\ buffer' = IF outcome = "raised"
                    THEN [x \in DOMAIN buffer \cup {k} |-> IF x = k THEN g ELSE buffer[x]]
                    ELSE buffer
      /\ UNCHANGED <<impl, env, parsed, threads, consumer, inbox, scan, opened, observer, loop, spool, timers, ready, reads,
                     addCalls, created, accepted, touched>>

bark_send_done(i, outcome) ==
  /\ emitted[i].status = "pending"
  /\ emitted' = [emitted EXCEPT ![i].status = outcome]
  /\ UNCHANGED <<impl, env, parsed, threads, consumer, inbox, scan, opened, observer, loop, spool, buffer, timers, ready, reads,
                 addCalls, created, accepted, touched>>

\* one second passes while the loop has nothing to run
Tick ==
  /\ ready = <<>>
  /\ \A id \in 1..Len(timers) : timers[id].state = "scheduled" => timers[id].left > 0
  /\ \E id \in 1..Len(timers) : timers[id].state = "scheduled"
  /\ timers' = [id \in 1..Len(timers) |->
                 IF timers[id].state = "scheduled"
                 THEN [timers[id] EXCEPT !.left = @ - 1] ELSE timers[id]]
  /\ buffer' = [k \in DOMAIN buffer |->
                 [buffer[k] EXCEPT !.age = IF @ > Timeout THEN @ ELSE @ + 1,
                                   !.waited = IF env.clock THEN @ + 1 ELSE @]]
  /\ emitted' = [i \in 1..Len(emitted) |->
                  [emitted[i] EXCEPT !.since = IF emitted[i].age + @ >= Timeout THEN @ ELSE @ + 1]]
  /\ UNCHANGED <<impl, env, parsed, threads, consumer, inbox, scan, opened, observer, loop, spool, ready, reads, addCalls, created,
                 accepted, touched>>

Next ==
  \/ start
  \/ \E f \in Files : on_created(f)
  \/ RunReady
  \/ \E f \in Files : ReadDone(f)
  \/ \E id \in 1..Len(timers) : TimerDue(id)
  \/ \E i \in 1..Len(emitted), o \in SinkOutcomes : bark_send_done(i, o)
  \/ Tick

Spec == Init /\ [][Next]_vars

\* variant: stop also empties the spool directory
stop_purge ==
  /\ observer \in {"alive", "inert"}
  /\ observer' = IF observer = "alive" THEN "stopped" ELSE observer
  /\ spool' = {}
  /\ UNCHANGED <<impl, env, parsed, threads, consumer, inbox, scan, opened, loop, buffer, timers, ready, reads,
                 emitted, addCalls, accepted, created, touched>>

\* SMSService.stop / the finally clause of monitor_inbox: a started observer is
\* stopped and joined; nothing else is done, and the loop keeps running
stop ==
  /\ observer \in {"alive", "inert"}
  /\ observer' = IF observer = "alive" THEN "stopped" ELSE observer
  /\ UNCHANGED <<impl, env, parsed, threads, consumer, inbox, scan, opened, loop, spool, buffer, timers, ready, reads,
                 emitted, addCalls, accepted, created, touched>>

NextLife ==
  \/ Next
  \/ stop

SpecLife == InitLife /\ [][NextLife]_vars

SpecBurst == InitBurst /\ [][Next]_vars

SpecStream == InitStream /\ [][Next]_vars

\* The event loop keeps running: it runs every handle on its ready queue and
\* every timer that is due, time passes while a timer is scheduled, and a
\* file read that was started completes.  The watcher is never stopped and
\* the environment creates env.count files at most.
LoopRuns ==
  /\ WF_vars(RunReady)
  /\ WF_vars(\E id \in 1..Len(timers) : TimerDue(id))
  /\ WF_vars(Tick)
  /\ WF_vars(\E f \in Files : ReadDone(f))

\* two segments of one (phone, serial), or of two
LiveFileSets == {{1, 2}, {1, 5}}

InitLive == \E paths \in LiveFileSets : InitWith(paths, MaxLive)

SpecLive == InitLive /\ [][Next]_vars /\ LoopRuns


\* ------------------------------------------------------------ inbox scan
\* code points of the characters of a timestamp, as str comparison uses them
Ord(c) ==
  CASE c = " " -> 32
    [] c = "-" -> 45
    [] c = ":" -> 58
    [] OTHER -> 48 + DigitVal(c)

\* a < b for two str values
RECURSIVE StrLess(_, _)
StrLess(a, b) ==
  IF b = <<>> THEN FALSE
  ELSE IF a = <<>> THEN TRUE
  ELSE IF Ord(a[1]) /= Ord(b[1]) THEN Ord(a[1]) < Ord(b[1])
  ELSE StrLess(Tail(a), Tail(b))

\* s[i:j] of Python for 0 <= i <= j
Sub(s, i, j) == SubSeq(s, i + 1, Min(j, Len(s)))

\* f"{d[:4]}-{d[4:6]}-{d[6:]} {t[:2]}:{t[2:4]}:{t[4:]}"
FormatTs(d, t) ==
  Sub(d, 0, 4) \o <<"-">> \o Sub(d, 4, 6) \o <<"-">> \o Sub(d, 6, Len(d)) \o <<" ">>
    \o Sub(t, 0, 2) \o <<":">> \o Sub(t, 2, 4) \o <<":">> \o Sub(t, 4, Len(t))

\* messages_map[key][seq] = content, the key being created on first use; the
\* map is a sequence in insertion order of its keys.  History only: src, the
\* file a content came from, and stored, the files put into the group.
MapStore(map, f) ==
  LET meta == parse_filename(SpoolEntry(f).name)
      key == <<meta.date, meta.time, meta.phone, meta.serial>>
      item == [content |-> SpoolEntry(f).text, src |-> f]
      at == {i \in 1..Len(map) : map[i].key = key}
  IN  IF at = {}
      THEN Append(map, [key |-> key, parts |-> (meta.seq :> item), stored |-> {f}])
      ELSE [i \in 1..Len(map) |->
              IF i \in at
              THEN [key |-> key,
                    parts |-> [q \in DOMAIN map[i].parts \cup {meta.seq} |->
                                 IF q = meta.seq THEN item ELSE map[i].parts[q]],
                    stored |-> map[i].stored \cup {f}]
              ELSE map[i]]

\* variant: the first file whose read raises ends the loop over the listing
RECURSIVE BuildMap_stop(_, _, _)
BuildMap_stop(map, listing, unreadable) ==
  IF listing = <<>> \/ Head(listing) \in unreadable THEN map
  ELSE LET f == Head(listing)
       IN  BuildMap_stop(IF parse_filename(SpoolEntry(f).name) = NoMatch THEN map
                         ELSE MapStore(map, f), Tail(listing), unreadable)

\* the loop over os.listdir: names that do not parse are skipped, and so are
\* files whose open or read raises
RECURSIVE BuildMap(_, _, _)
BuildMap(map, listing, unreadable) ==
  IF listing = <<>> THEN map
  ELSE LET f == Head(listing)
           skip == parse_filename(SpoolEntry(f).name) = NoMatch \/ f \in unreadable
       IN  BuildMap(IF skip THEN map ELSE MapStore(map, f), Tail(listing), unreadable)

\* "".join(v for k, v in sorted(parts.items()))
RECURSIVE JoinSorted(_)
JoinSorted(parts) ==
  IF DOMAIN parts = {} THEN ""
  ELSE LET q == CHOOSE x \in DOMAIN parts : \A y \in DOMAIN parts : x <= y
       IN  parts[q].content \o JoinSorted([y \in DOMAIN parts \ {q} |-> parts[y]])

\* the dict appended to final_msgs for one group.  History only: key, stored
\* and used (the files whose content is in the text).
FinalMsg(g) ==
  [ts |-> FormatTs(g.key[1], g.key[2]), sender |-> g.key[3], text |-> JoinSorted(g.parts),
   key |-> g.key, stored |-> g.stored, used |-> {g.parts[q].src : q \in DOMAIN g.parts}]

\* sort(key=ts, reverse=True): descending and stable
RECURSIVE InsertByTsDesc(_, _)
InsertByTsDesc(sorted, m) ==
  IF sorted = <<>> THEN <<m>>
  ELSE IF ~StrLess(sorted[Len(sorted)].ts, m.ts) THEN Append(sorted, m)
  ELSE Append(InsertByTsDesc(SubSeq(sorted, 1, Len(sorted) - 1), m), sorted[Len(sorted)])

\* variant: the messages are left in the order of the map
SortByTsDesc_unsorted(msgs) == msgs

RECURSIVE SortByTsDesc(_)
SortByTsDesc(msgs) ==
  IF msgs = <<>> THEN <<>>
  ELSE InsertByTsDesc(SortByTsDesc(SubSeq(msgs, 1, Len(msgs) - 1)), msgs[Len(msgs)])

\* variant: the slice keeps the end of the list
Slice_tail(msgs, limit) ==
  IF limit >= Len(msgs) THEN msgs
  ELSE SubSeq(msgs, Len(msgs) - limit + 1, Len(msgs))

\* msgs[:limit]; a negative limit drops that many from the end
Slice(msgs, limit) ==
  IF limit >= 0 THEN SubSeq(msgs, 1, Min(limit, Len(msgs)))
  ELSE SubSeq(msgs, 1, Len(msgs) + limit)

\* list.reverse()
Reverse(msgs) == [i \in 1..Len(msgs) |-> msgs[Len(msgs) + 1 - i]]

\* the orders in which os.listdir may enumerate the paths
Listings(S) ==
  {l \in [1..Cardinality(S) -> S] : \A i, j \in 1..Cardinality(S) : l[i] = l[j] => i = j}

FinalMsgs(listing, unreadable) ==
  LET map == BuildMap(<<>>, listing, unreadable)
  IN  [i \in 1..Len(map) |-> FinalMsg(map[i])]

\* variant: the scanner takes the pending groups out of the live buffer
get_inbox_messages_drain(limit, listing, unreadable) ==
  /\ impl = "sdk"
  /\ scan = NoScan
  /\ scan' = [who |-> "sdk", limit |-> limit, listing |-> listing,
              unreadable |-> unreadable,
              flushed |-> Len(emitted), pending |-> DOMAIN buffer,
              result |-> Slice(SortByTsDesc(FinalMsgs(listing, unreadable)), limit)]
  /\ buffer' = <<>>
  /\ UNCHANGED <<impl, env, parsed, threads, consumer, inbox, opened, observer, loop, spool, timers, ready, reads,
                 emitted, addCalls, accepted, created, touched>>

\* sdk get_inbox_messages(limit); the directory may be missing, or os.listdir
\* may raise on it ("unlistable").  History only: flushed and pending, the
\* number of messages the live path had emitted and the keys it had pending
\* when the scan ran.
get_inbox_messages(limit, listing, unreadable) ==
  /\ impl = "sdk"
  /\ scan = NoScan
  /\ scan' = [who |-> "sdk", limit |-> limit, listing |-> listing,
              unreadable |-> unreadable,
              flushed |-> Len(emitted), pending |-> DOMAIN buffer,
              result |-> IF inbox.dir \in {"missing", "unlistable"} THEN <<>>
                         ELSE Slice(SortByTsDesc(FinalMsgs(listing, unreadable)), limit)]
  /\ UNCHANGED <<impl, env, parsed, threads, consumer, inbox, opened, observer, loop, spool, buffer, timers, ready, reads,
                 emitted, addCalls, accepted, created, touched>>

\* the bot's get_recent_sms_messages(limit)
get_recent_sms_messages(limit, listing, unreadable) ==
  /\ impl = "services"
  /\ scan = NoScan
  /\ scan' = [who |-> "bot", limit |-> limit, listing |-> listing,
              unreadable |-> unreadable,
              flushed |-> Len(emitted), pending |-> DOMAIN buffer,
              result |-> IF inbox.dir \in {"missing", "unlistable"} THEN <<>>
                         ELSE LET final_messages == FinalMsgs(listing, unreadable)
                              IN  IF final_messages = <<>> THEN <<>>
                                  ELSE Reverse(Slice(SortByTsDesc(final_messages), limit))]
  /\ UNCHANGED <<impl, env, parsed, threads, consumer, inbox, opened, observer, loop, spool, buffer, timers, ready, reads,
                 emitted, addCalls, accepted, created, touched>>

\* a spool directory, missing, not listable, or holding up to MaxScanFiles
\* paths, and no watcher running
InitScan ==
  /\ impl \in {"services", "sdk"}
  /\ env = [paths |-> {}, count |-> 0, clock |-> FALSE]
  /\ inbox \in {[dir |-> d, makedirs |-> <<>>] : d \in {"present", "missing", "unlistable"}}
  /\ spool \in {S \in SUBSET ScanPaths :
                  Cardinality(S) <= IF inbox.dir = "present" THEN MaxScanFiles ELSE 0}
  /\ opened = [f \in Files |-> [n |-> 0, prior |-> {}]]
  /\ scan = NoScan
  /\ parsed = NoParse
  /\ consumer = NoConsumer
  /\ threads = NoThreads
  /\ observer = "init"
  /\ loop = None
  /\ buffer = <<>>
  /\ timers = <<>>
  /\ ready = <<>>
  /\ reads = {}
  /\ emitted = <<>>
  /\ addCalls = [f \in Files |-> 0]
  /\ accepted = {}
  /\ created = 0
  /\ touched = {}

\* the limits a caller passes: the /sms command passes any integer
Limits == (0 - 1)..MaxLimit

\* a caller of the sdk scans the directory once: any limit, any listing
\* order, and at most one file whose read fails
ScanInbox ==
  /\ scan = NoScan
  /\ \E limit \in Limits, listing \in Listings(spool), bad \in spool \cup {NoFile} :
       get_inbox_messages(limit, listing, {bad} \ {NoFile})

\* the bot scans the directory once (/sms, the inbox menu)
ScanRecent ==
  /\ scan = NoScan
  /\ \E limit \in Limits, listing \in Listings(spool), bad \in spool \cup {NoFile} :
       get_recent_sms_messages(limit, listing, {bad} \ {NoFile})

NextScan ==
  \/ ScanInbox
  \/ ScanRecent

SpecScan == InitScan /\ [][NextScan]_vars


\* ------------------------------------------------- live path and scan path
\* a run of the watcher during which the directory is scanned
InitBoth == InitWith(BothFiles, MaxBoth)

\* the directory is scanned while the watcher may be running: the scanner of
\* the implementation, any listing order, every file readable
ScanLive ==
  /\ scan = NoScan
  /\ \E listing \in Listings(spool) :
       \/ get_inbox_messages(MaxLimit, listing, {})
       \/ get_recent_sms_messages(MaxLimit, listing, {})

NextBoth ==
  \/ NextLife
  \/ ScanLive

SpecBoth == InitBoth /\ [][NextBoth]_vars

\* ---------------------------------------- the consumer of monitor_inbox
\* segments of two senders, so that more than one message is queued
MonitorFiles == {1, 2, 5}

InitMonitor == InitWith(MonitorFiles, MaxMonitor)

\* phone, text = await queue.get(); yield phone, text: the generator hands the
\* oldest message on its queue to the consumer and stays suspended at the yield
monitor_inbox_yield ==
  /\ impl = "sdk"
  /\ observer = "alive"
  /\ consumer.at = "iterating"
  /\ \E i \in 1..Len(emitted) :
       /\ emitted[i].status = "queued"
       /\ \A j \in 1..(i - 1) : emitted[j].status /= "queued"
       /\ emitted' = [emitted EXCEPT ![i].status = "yielded"]
       /\ consumer' = [at |-> "holding", got |-> Append(consumer.got, i)]
  /\ UNCHANGED <<impl, env, parsed, threads, inbox, scan, opened, observer, loop, spool, buffer, timers,
                 ready, reads, addCalls, accepted, created, touched>>

\* the consumer asks for the next message: the generator resumes after the
\* yield, calls queue.task_done() and awaits queue.get() again
monitor_inbox_resume ==
  /\ impl = "sdk"
  /\ observer = "alive"
  /\ consumer.at = "holding"
  /\ consumer' = [consumer EXCEPT !.at = "iterating"]
  /\ UNCHANGED <<impl, env, parsed, threads, inbox, scan, opened, observer, loop, spool, buffer, timers,
                 ready, reads, emitted, addCalls, accepted, created, touched>>

\* the consumer leaves its loop (break, return, an exception or a cancellation
\* in the loop body) while the generator is suspended at the yield: nothing
\* is thrown into the generator, whose finally clause runs (stop) only when
\* the generator is closed or finalized
consumer_leaves ==
  /\ impl = "sdk"
  /\ observer = "alive"
  /\ consumer.at = "holding"
  /\ consumer' = [consumer EXCEPT !.at = "left"]
  /\ UNCHANGED <<impl, env, parsed, threads, inbox, scan, opened, observer, loop, spool, buffer, timers,
                 ready, reads, emitted, addCalls, accepted, created, touched>>

NextMonitor ==
  \/ NextLife
  \/ monitor_inbox_yield
  \/ monitor_inbox_resume
  \/ consumer_leaves

SpecMonitor == InitMonitor /\ [][NextMonitor]_vars

\* ------------------------------------------------ the assembler on its own
\* The assembler as an object of its own: the service's module-level
\* SMSAssembler() has no loop until set_loop is called, the sdk's is built
\* with one; add_part is called from the loop thread with segments of two
\* senders.
UnitFiles == {1, 2, 5}

InitUnit == InitWith(UnitFiles, MaxCalls)

\* SMSAssembler.set_loop
set_loop ==
  /\ impl = "services"
  /\ loop = None
  /\ loop' = "loop"
  /\ UNCHANGED <<impl, env, parsed, threads, consumer, inbox, scan, opened, observer, spool, buffer,
                 timers, ready, reads, emitted, addCalls, accepted, created, touched>>

\* a call of assembler.add_part with the fields of file f, whether or not the
\* loop has been set
call_add_part(f) ==
  /\ f \in env.paths
  /\ addCalls[f] = 0
  /\ Cardinality({g \in Files : addCalls[g] > 0}) < env.count
  /\ LET meta == parse_filename(SpoolEntry(f).name)
     IN  add_part("loop", meta.phone, meta.serial, meta.seq, SpoolEntry(f).text, f)
  /\ UNCHANGED <<impl, env, parsed, threads, consumer, inbox, scan, opened, observer, loop, spool,
                 ready, reads, emitted, accepted>>

NextUnit ==
  \/ set_loop
  \/ \E f \in Files : call_add_part(f)
  \/ RunReady
  \/ \E id \in 1..Len(timers) : TimerDue(id)
  \/ \E i \in 1..Len(emitted), o \in SinkOutcomes : bark_send_done(i, o)
  \/ Tick

SpecUnit == InitUnit /\ [][NextUnit]_vars

\* ------------------------------------------- stop and the watcher thread
\* stop seen with its two threads: the loop thread calls observer.stop() and
\* blocks in observer.join() until the watcher thread, which may be inside
\* on_created, has left its handler and exited.
StopFiles == {1, 2, 6}

InitStop == InitWith(StopFiles, MaxStop)

\* the observer, alive and not asked to stop, takes the creation of path f
\* and enters the handler's on_created on the watcher thread
dispatch(f) ==
  /\ observer = "alive"
  /\ threads.watcher = "idle"
  /\ f \in env.paths
  /\ f \notin spool
  /\ Cardinality(spool) < env.count
  /\ spool' = spool \cup {f}
  /\ threads' = [threads EXCEPT !.watcher = "handling", !.event = f]
  /\ UNCHANGED <<impl, env, parsed, consumer, inbox, scan, observer, loop, emitted, buffer,
                 timers, ready, reads, addCalls, accepted, created, touched, opened>>

\* variant: the handler waits for the loop to have taken the call it
\* scheduled, which a loop blocked in join never does
handoff_wait ==
  /\ threads.watcher = "handling"
  /\ threads.main = "running"
  /\ IF impl = "services" THEN SMSHandler_on_created(threads.event)
                          ELSE WatchdogHandler_on_created(threads.event)
  /\ threads' = [threads EXCEPT !.watcher = "idle", !.event = NoFile]
  /\ UNCHANGED <<impl, env, parsed, consumer, inbox, scan, observer, loop, emitted, spool>>

\* the body of on_created up to its return: the call is put on the loop with
\* call_soon_threadsafe, which does not wait for the loop
handoff ==
  /\ threads.watcher = "handling"
  /\ IF impl = "services" THEN SMSHandler_on_created(threads.event)
                          ELSE WatchdogHandler_on_created(threads.event)
  /\ threads' = [threads EXCEPT !.watcher = "idle", !.event = NoFile]
  /\ UNCHANGED <<impl, env, parsed, consumer, inbox, scan, observer, loop, emitted, spool>>

\* observer.stop() on the loop thread, which then blocks in observer.join().
\* History only: overlapped, the watcher was inside on_created at that moment.
stop_begin ==
  /\ observer = "alive"
  /\ threads.main = "running"
  /\ observer' = "stopping"
  /\ threads' = [threads EXCEPT !.main = "joining",
                                !.overlapped = threads.watcher = "handling"]
  /\ UNCHANGED <<impl, env, parsed, consumer, inbox, scan, opened, loop, spool, buffer, timers,
                 ready, reads, emitted, addCalls, accepted, created, touched>>

\* the watcher thread, out of its handler, sees the stop request and exits
watcher_exit ==
  /\ observer = "stopping"
  /\ threads.watcher = "idle"
  /\ threads' = [threads EXCEPT !.watcher = "exited"]
  /\ UNCHANGED <<impl, env, parsed, consumer, inbox, scan, opened, observer, loop, spool, buffer,
                 timers, ready, reads, emitted, addCalls, accepted, created, touched>>

\* observer.join() returns and stop with it
join_return ==
  /\ observer = "stopping"
  /\ threads.watcher = "exited"
  /\ observer' = "stopped"
  /\ threads' = [threads EXCEPT !.main = "running"]
  /\ UNCHANGED <<impl, env, parsed, consumer, inbox, scan, opened, loop, spool, buffer, timers,
                 ready, reads, emitted, addCalls, accepted, created, touched>>

\* what the loop thread does when it is not blocked
LoopStep ==
  /\ threads.main = "running"
  /\ \/ RunReady
     \/ \E f \in Files : ReadDone(f)
     \/ \E id \in 1..Len(timers) : TimerDue(id)
     \/ \E i \in 1..Len(emitted), o \in SinkOutcomes : bark_send_done(i, o)
     \/ Tick

NextStop ==
  \/ start
  \/ \E f \in Files : dispatch(f)
  \/ handoff
  \/ stop_begin
  \/ watcher_exit
  \/ join_return
  \/ LoopStep

SpecStop == InitStop /\ [][NextStop]_vars

\* ------------------------------------------------------------ the codec
\* The names the codec is applied to: every piece of a Gammu name, right or
\* wrong, around a sender of up to MaxSender characters.
SenderChars == {"X", "_", "1", "\n"}

Senders == UNION {[1..n -> SenderChars] : n \in 0..MaxSender}

Heads == {<<"I", "N">>, <<"O", "U", "T">>}

Dates == {DateA, SubSeq(DateA, 1, 7), <<"2", "0", "2", "5", "1", "2", "1", "x">>}

Times == {TimeA, <<"0", "0", "1", "0", "0", "x">>}

Serials == {<<"0", "0">>, <<"1", "2">>, <<"1", "x">>}

Seqs == {<<"0", "0">>, <<"0", "7">>, <<"1", "0">>, <<"7">>, <<"x", "1">>}

Tails == {<<".", "t", "x", "t">>, <<>>, <<".", "t", "x", "t", "\n">>}

CodecNames ==
  {head \o date \o <<"_">> \o time \o <<"_">> \o serial \o <<"_">> \o phone \o <<"_">>
     \o seq \o tail :
     head \in Heads, date \in Dates, time \in Times, serial \in Serials,
     phone \in Senders, seq \in Seqs, tail \in Tails}

InitCodec ==
  /\ impl = "sdk"
  /\ env = [paths |-> {}, count |-> 0, clock |-> FALSE]
  /\ inbox = [dir |-> "present", makedirs |-> <<>>]
  /\ spool = {}
  /\ opened = [f \in Files |-> [n |-> 0, prior |-> {}]]
  /\ scan = NoScan
  /\ parsed \in {[name |-> fn, returned |-> FALSE, result |-> NoMatch] : fn \in CodecNames}
  /\ consumer = NoConsumer
  /\ threads = NoThreads
  /\ observer = "init"
  /\ loop = None
  /\ buffer = <<>>
  /\ timers = <<>>
  /\ ready = <<>>
  /\ reads = {}
  /\ emitted = <<>>
  /\ addCalls = [f \in Files |-> 0]
  /\ accepted = {}
  /\ created = 0
  /\ touched = {}

\* one call of parse_filename on the name, the dict or None it returns kept
Parse ==
  /\ ~parsed.returned
  /\ parsed' = [parsed EXCEPT !.returned = TRUE, !.result = parse_filename(parsed.name)]
  /\ UNCHANGED <<impl, env, threads, consumer, inbox, observer, loop, spool, buffer, timers, ready,
                 reads, emitted, addCalls, accepted, created, touched, opened, scan>>

NextCodec == Parse

SpecCodec == InitCodec /\ [][NextCodec]_vars

\* ================================================================ claims
Messages == 1..Len(emitted)

\* the files whose segments a message was assembled from
Sources(i) == {emitted[i].parts[n].src : n \in 1..Len(emitted[i].parts)}

\* live handles of a key: scheduled or ready, not cancelled, not yet called
LiveTimers(key) ==
  {id \in 1..Len(timers) : timers[id].key = key /\ timers[id].state \in {"scheduled", "ready"}}

\* text is the texts of parts laid end to end in an order p of the parts
\* along which the sequence numbers never decrease
RECURSIVE TextAlong(_, _, _)
TextAlong(parts, p, n) ==
  IF n = 0 THEN "" ELSE TextAlong(parts, p, n - 1) \o parts[p[n]].text

IsAscendingConcat(parts, text) ==
  \E p \in [1..Len(parts) -> 1..Len(parts)] :
    /\ \A a, b \in 1..Len(parts) : a /= b => p[a] /= p[b]
    /\ \A a, b \in 1..Len(parts) : a < b => parts[p[a]].seq <= parts[p[b]].seq
    /\ text = TextAlong(parts, p, Len(parts))

\* C1: every emitted message's text is the concatenation of its group's
\* segment texts in ascending sequence-number order, whatever the arrival
\* order; (seq 1, "Hello ") added before (seq 0, "World: ") gives
\* "World: Hello ".
C1_SequenceOrder ==
  \A i \in Messages :
    /\ IsAscendingConcat(emitted[i].parts, emitted[i].text)
    /\ ( /\ Len(emitted[i].parts) = 2
         /\ emitted[i].parts[1].seq = 1 /\ emitted[i].parts[1].text = "Hello "
         /\ emitted[i].parts[2].seq = 0 /\ emitted[i].parts[2].text = "World: " )
       => emitted[i].text = "World: Hello "

\* a group whose segments arrived in descending sequence order was flushed
C1_Witness ==
  \E i \in Messages :
    /\ Len(emitted[i].parts) >= 2
    /\ emitted[i].parts[1].seq > emitted[i].parts[2].seq
    /\ emitted[i].text = "World: Hello "

\* occurrences of file f among the parts of a list
Occurs(parts, f) == Cardinality({n \in 1..Len(parts) : parts[n].src = f})

PendingOccurs(f) ==
  LET ks == {k \in DOMAIN buffer : Occurs(buffer[k].parts, f) > 0}
  IN  IF ks = {} THEN 0
      ELSE IF Cardinality(ks) > 1 THEN 2
      ELSE Occurs(buffer[CHOOSE k \in ks : TRUE].parts, f)

EmittedOccurs(f) ==
  LET ms == {i \in Messages : Occurs(emitted[i].parts, f) > 0}
  IN  IF ms = {} THEN 0
      ELSE IF Cardinality(ms) > 1 THEN 2
      ELSE Occurs(emitted[CHOOSE i \in ms : TRUE].parts, f)

\* nothing is left that could still flush: no group, no live timer, no task
Drained ==
  /\ DOMAIN buffer = {}
  /\ \A id \in 1..Len(timers) : timers[id].state \notin {"scheduled", "ready"}
  /\ \A n \in 1..Len(ready) : ready[n].kind /= "flush"

\* C2: exactly-once emission.  No segment given to add_part is in two emitted
\* messages; every group that was created is either still pending or has
\* handed exactly one message to the sink; every segment added is in exactly
\* one place, a pending group or one emitted message, and so in exactly one
\* emitted message once the buffer has drained.
C2_ExactlyOnce ==
  /\ \A i, j \in Messages : i /= j => Sources(i) \cap Sources(j) = {}
  /\ created = Len(emitted) + Cardinality(DOMAIN buffer)
  /\ \A f \in Files : addCalls[f] = PendingOccurs(f) + EmittedOccurs(f)
  /\ \A f \in Files : EmittedOccurs(f) <= 1
  /\ Drained => \A f \in Files : addCalls[f] > 0 => EmittedOccurs(f) = 1

\* the buffer has drained after two groups were flushed
C2_Witness ==
  /\ Drained
  /\ Len(emitted) >= 2
  /\ \E f, g \in Files : f /= g /\ addCalls[f] = 1 /\ addCalls[g] = 1


\* C3: a group that took a second segment before its debounce timer fired is
\* flushed with all its segments Timeout seconds after the last one was
\* added (the timer was cancelled and rescheduled), not earlier.
C3_ResetFlushesAfterLast ==
  \A i \in Messages :
    (Len(emitted[i].parts) >= 2 /\ ~emitted[i].raced) => emitted[i].age = Timeout

\* messages of the same key emitted before message i
EarlierSameKey(i) == {j \in 1..(i - 1) : emitted[j].key = emitted[i].key}

\* C4: a segment added for a key after the key's previous group was flushed
\* starts a new group: the n-th message of a key is made of exactly the
\* segments that were added after n-1 messages of the key had been emitted,
\* so a late segment is never part of the earlier message and the two groups
\* give two messages.
C4_NewGroupAfterFlush ==
  \A i \in Messages :
    \A n \in 1..Len(emitted[i].parts) :
      emitted[i].parts[n].after = Cardinality(EarlierSameKey(i))

\* two messages of one key, the second made of a segment added after the first
C4_Witness ==
  \E i, j \in Messages :
    /\ i < j
    /\ emitted[i].key = emitted[j].key
    /\ emitted[j].parts[1].after >= 1

\* C5: a flush for a key that is not in the buffer map does nothing, so two
\* flush tasks created for the same key while one group was pending emit at
\* most one message between them.
C5_TwoFlushTasksOneMessage ==
  \A i, j \in Messages :
    (i /= j /\ emitted[i].key = emitted[j].key) => emitted[i].gen /= emitted[j].gen

\* C6: when add_part races with the firing of the key's timer there are two
\* outcomes only: the old group is flushed without the new segment, which
\* starts a group of its own that waits a full Timeout, or the timer is reset
\* and the group with the new segment is flushed Timeout after that segment.
C6_RaceOutcomes ==
  \A i \in Messages :
    (emitted[i].raced \/ EarlierSameKey(i) /= {}) => emitted[i].age = Timeout

\* C7: at every moment a key has at most one live debounce timer.
C7_OneLiveTimerPerKey ==
  \A id \in 1..Len(timers) : Cardinality(LiveTimers(timers[id].key)) <= 1

\* C8: every execution of buffer code (add_part, the timer callback, the
\* flush) is on the event-loop thread; the watcher thread only schedules.
C8_BufferOnLoopThread == touched \subseteq {"loop"}

\* the watcher has handed over a segment and the loop has added and flushed it
C8_Witness ==
  /\ touched = {"loop"}
  /\ accepted /= {}
  /\ emitted /= <<>>

\* handles in the ready queue that will call add_part for file f
PendingAdds(f) ==
  Cardinality({n \in 1..Len(ready) :
     \/ ready[n].kind = "add_part" /\ ready[n].arg.src = f
     \/ ready[n].kind = "read_done" /\ ready[n].arg.f = f /\ ready[n].arg.ok})

\* C9: for every file-created event whose name parses and whose read
\* succeeds, add_part runs exactly once: the event is either still waiting in
\* the loop's queue or has been applied once, never twice; an event that did
\* not parse or could not be read never reaches add_part.
C9_AddPartOncePerFile ==
  \A f \in Files :
    /\ addCalls[f] <= 1
    /\ f \in accepted => addCalls[f] + PendingAdds(f) = 1
    /\ f \notin accepted => addCalls[f] = 0 /\ PendingAdds(f) = 0

\* two events were handed over while the other was still queued, both applied
C9_Witness ==
  \E f, g \in accepted :
    /\ f /= g
    /\ addCalls[f] = 1 /\ addCalls[g] = 1
    /\ PendingAdds(f) = 0 /\ PendingAdds(g) = 0
    /\ Cardinality(spool) > Cardinality(accepted)

\* the key has something scheduled that will flush it
WillFlush(key) == LiveTimers(key) /= {} \/ FlushPending(key)

\* C10: a sink delivery that raises is caught inside the flush and does not
\* stop the buffer: every group pending after the failure still has its
\* flush scheduled, and every message of another key flushed after the
\* failure carries all its segments in sequence order.
C10_SinkFailureIsolated ==
  \A i \in Messages :
    emitted[i].status = "raised" =>
      /\ \A k \in DOMAIN buffer : WillFlush(k)
      /\ \A j \in Messages :
           (j > i /\ emitted[j].key /= emitted[i].key) =>
              /\ IsAscendingConcat(emitted[j].parts, emitted[j].text)
              /\ emitted[j].parts /= <<>>

\* after a delivery raised, a group of another sender was added and flushed
C10_Witness ==
  \E i, j \in Messages :
    /\ emitted[i].status = "raised"
    /\ emitted[j].sawFailure
    /\ emitted[j].key /= emitted[i].key
    /\ emitted[j].parts[1].after = 0


\* C11: a failed sink delivery is not retried and does not restore buffer
\* state: the segments of a message whose delivery raised are in no pending
\* group and in no other message, and if the key is in the map again, its
\* group is made only of segments added after that message was flushed.
C11_NoRetryNoRestore ==
  \A i \in Messages :
    emitted[i].status = "raised" =>
      /\ \A f \in Sources(i) : PendingOccurs(f) = 0 /\ EmittedOccurs(f) = 1
      /\ emitted[i].key \in DOMAIN buffer =>
           \A n \in 1..Len(buffer[emitted[i].key].parts) :
              buffer[emitted[i].key].parts[n].after > Cardinality(EarlierSameKey(i))

\* a delivery raised, its key is gone from the map and nothing is scheduled
C11_Witness ==
  \E i \in Messages :
    /\ emitted[i].status = "raised"
    /\ emitted[i].key \notin DOMAIN buffer
    /\ ~WillFlush(emitted[i].key)


\* C12: once stop has returned, no debounce timer callback fires and no
\* pending group is flushed: the groups pending at stop are discarded.
\* (stop itself cannot raise: it only stops and joins the observer.)
C12_StopDiscardsPending ==
  [][observer = "stopped" =>
       /\ Len(emitted') = Len(emitted)
       /\ \A id \in 1..Len(timers) :
            timers[id].state /= "run" => timers'[id].state /= "run"]_vars

\* C13: once stop has returned, no add_part call executes, the calls already
\* marshaled onto the loop included.
C13_NoAddPartAfterStop ==
  [][observer = "stopped" => addCalls' = addCalls]_vars

\* C20: on start with a missing spool directory, creation is attempted once,
\* and when the creation fails, for whatever reason, the subsystem stays inert
\* (the observer is never started, nothing is watched) and no exception
\* leaves start.
C20_MissingDirStaysInert ==
  /\ Len(inbox.makedirs) <= 1
  /\ observer /= "raised"
  /\ (inbox.makedirs /= <<>> /\ inbox.makedirs[1] /= "created") =>
        /\ observer = "inert"
        /\ spool = {}
        /\ loop = None

\* the paths whose name the spool pattern does not match
NonMatching == {f \in Files : parse_filename(SpoolEntry(f).name) = NoMatch}

RECURSIVE SumCalls(_)
SumCalls(S) ==
  IF S = {} THEN 0
  ELSE LET f == CHOOSE x \in S : TRUE IN addCalls[f] + SumCalls(S \ {f})

\* C18: a created path whose name does not match the pattern is discarded:
\* it is never opened, never read, add_part is neither called nor queued for
\* it, it is in no group and no message, every timer was armed by an add_part
\* call (so such an event arms or cancels none), and the watcher stays alive
\* for the events that follow.
C18_NonMatchingDiscarded ==
  /\ \A f \in NonMatching :
       /\ opened[f].n = 0
       /\ f \notin reads
       /\ f \notin accepted
       /\ addCalls[f] = 0
       /\ PendingAdds(f) = 0
       /\ PendingOccurs(f) = 0
       /\ EmittedOccurs(f) = 0
  /\ Len(timers) = SumCalls(Files)
  /\ spool /= {} => observer = "alive"

\* a name that does not match was dropped, and a file created after it was
\* read, assembled and emitted
C18_Witness ==
  \E f \in NonMatching, g \in Files :
    /\ ~SpoolEntry(f).is_directory
    /\ f \in opened[g].prior
    /\ EmittedOccurs(g) = 1

\* the handler opened f and the read failed
ReadFailed(f) ==
  /\ opened[f].n >= 1
  /\ f \notin reads
  /\ f \notin accepted

\* C19: when reading a segment file fails the segment is dropped: add_part
\* is neither called nor queued for the file, the file is in no group and no
\* message, the file is opened once and never again, and the watcher stays
\* alive for the events that follow.
C19_FailedReadDropped ==
  \A f \in Files :
    /\ opened[f].n <= 1
    /\ ReadFailed(f) =>
         /\ addCalls[f] = 0
         /\ PendingAdds(f) = 0
         /\ PendingOccurs(f) = 0
         /\ EmittedOccurs(f) = 0
         /\ observer = "alive"

\* a read failed, and a file created after it was read, assembled and emitted
C19_Witness ==
  \E f, g \in Files :
    /\ ReadFailed(f)
    /\ f \in opened[g].prior
    /\ EmittedOccurs(g) = 1

\* the buffer key of the segment in file f
KeyOf(f) ==
  LET meta == parse_filename(SpoolEntry(f).name) IN <<meta.phone, meta.serial>>

\* the received date and time in the name of file f
StampOf(f) ==
  LET meta == parse_filename(SpoolEntry(f).name) IN <<meta.date, meta.time>>

\* C17: the live buffer groups by (sender, serial) only.  Every segment of a
\* pending group and of an emitted message has the sender and serial of the
\* group's key, so segments differing in sender or serial are never together;
\* and two segments of one key with different received date/time, the second
\* added less than Timeout seconds after the first, are in one message: the
\* second never starts a group of its own.
C17_KeyIsSenderSerial ==
  /\ \A k \in DOMAIN buffer : \A n \in 1..Len(buffer[k].parts) :
       /\ KeyOf(buffer[k].parts[n].src) = k
       /\ LET p == buffer[k].parts[n]
          IN  p.splitFrom /= NoFile => StampOf(p.splitFrom) = StampOf(p.src)
  /\ \A i \in Messages : \A n \in 1..Len(emitted[i].parts) :
       /\ KeyOf(emitted[i].parts[n].src) = emitted[i].key
       /\ LET p == emitted[i].parts[n]
          IN  p.splitFrom /= NoFile => StampOf(p.splitFrom) = StampOf(p.src)

\* a scan has been made
Scanned == scan /= NoScan

\* the scanner's grouping key of file f
Key4(f) ==
  LET meta == parse_filename(SpoolEntry(f).name)
  IN  <<meta.date, meta.time, meta.phone, meta.serial>>

\* the files the scan could parse and read
Readable ==
  IF inbox.dir /= "present" THEN {}
  ELSE {f \in spool : parse_filename(SpoolEntry(f).name) /= NoMatch /\ f \notin scan.unreadable}

\* the groups among them
Groups == {Key4(f) : f \in Readable}

\* group key a is received later than group key b
Newer(a, b) ==
  \/ int(a[1]) > int(b[1])
  \/ int(a[1]) = int(b[1]) /\ int(a[2]) > int(b[2])

C15_LimitCount ==
  (Scanned /\ scan.limit >= 0) =>
    LET res == scan.result
        returned == {res[i].key : i \in 1..Len(res)}
    IN  /\ Len(res) = Min(scan.limit, Cardinality(Groups))
        /\ Cardinality(returned) = Len(res)
        /\ returned \subseteq Groups
        /\ \A k \in Groups \ returned : \A r \in returned : ~Newer(k, r)
        /\ \A i \in 1..Len(res) :
             /\ res[i].stored \subseteq Readable
             /\ res[i].used /= {}

\* the limit cut the result short of the groups of a directory that also
\* holds a file with a foreign name
C15_Witness ==
  /\ Scanned
  /\ scan.limit >= 1
  /\ scan.limit < Cardinality(Groups)
  /\ Len(scan.result) = scan.limit
  /\ \E f \in spool : parse_filename(SpoolEntry(f).name) = NoMatch

\* the contents of the files in S, concatenated in ascending sequence order
RECURSIVE ConcatBySeq(_)
ConcatBySeq(S) ==
  IF S = {} THEN ""
  ELSE LET f == CHOOSE x \in S : \A y \in S :
                  parse_filename(SpoolEntry(x).name).seq <= parse_filename(SpoolEntry(y).name).seq
       IN  SpoolEntry(f).text \o ConcatBySeq(S \ {f})

\* C16: the scanner never merges segments of different received date or
\* time: the files put into one message all have the message's (date, time,
\* sender, serial); when the limit leaves no group out, every parseable
\* readable file has its content in exactly one message; and a message's
\* text is the contents of its files in ascending sequence order.
C16_ScanGroupsByStamp ==
  Scanned =>
    LET res == scan.result
    IN  /\ \A i \in 1..Len(res) :
             /\ \A f \in res[i].stored : Key4(f) = res[i].key
             /\ res[i].text = ConcatBySeq(res[i].stored)
        /\ Len(res) = Cardinality(Groups) =>
             \A f \in Readable : Cardinality({i \in 1..Len(res) : f \in res[i].used}) = 1

\* the listing without the paths in S
Without(listing, S) == SelectSeq(listing, LAMBDA f : f \notin S)

\* what a scanner returns for a listing all of whose files it can read
ScanOf(who, limit, listing) ==
  LET sorted == SortByTsDesc(FinalMsgs(listing, {}))
  IN  IF who = "sdk" THEN Slice(sorted, limit)
      ELSE IF sorted = <<>> THEN <<>> ELSE Reverse(Slice(sorted, limit))

\* what the scanner that ran returns for such a listing
Rescan(listing) == ScanOf(scan.who, scan.limit, listing)

\* C21: a scan never raises but always returns a list: the empty list for a
\* missing directory (and for one that cannot be listed), and otherwise the
\* result of scanning the same directory without the files whose read
\* failed: a read failure skips that one file only.
C21_ScanSkipsUnreadable ==
  Scanned =>
    /\ scan.result \in Seq([ts : Seq(STRING), sender : Seq(STRING), text : STRING,
                            key : Seq(Seq(STRING)), stored : SUBSET Files,
                            used : SUBSET Files])
    /\ inbox.dir /= "present" => scan.result = <<>>
    /\ inbox.dir = "present" => scan.result = Rescan(Without(scan.listing, scan.unreadable))

\* a file that parses could not be read, and the scan still returned the
\* message of another file
C21_Witness ==
  /\ Scanned
  /\ \E f \in scan.unreadable : parse_filename(SpoolEntry(f).name) /= NoMatch
  /\ scan.result /= <<>>

\* the action is a scan
ScanStep == scan = NoScan /\ scan' /= NoScan

\* C22: no operation deletes, moves, renames or rewrites a file of the spool
\* directory (the contents, SpoolEntry, are fixed): no step takes a path out
\* of the directory, paths only appear while the observer watches, one at a
\* time, and a scan, also one made after live processing, finds every
\* segment file that is in the directory.
C22_SpoolReadOnly ==
  [][/\ spool \subseteq spool'
     /\ spool' /= spool => observer = "alive" /\ Cardinality(spool') = Cardinality(spool) + 1
     /\ ScanStep =>
          \A f \in spool :
            parse_filename(SpoolEntry(f).name) /= NoMatch =>
              \E i \in 1..Len(scan'.result) : f \in scan'.result[i].stored]_vars

\* a scan made after the live path had flushed a message returned the files
\* of that message
C22_Witness ==
  /\ Scanned
  /\ scan.flushed >= 1
  /\ \E i \in 1..Len(scan.result) : \E f \in scan.result[i].stored : EmittedOccurs(f) = 1
  /\ observer = "stopped"

\* C23: a scan leaves the live buffer untouched (the buffer map with every
\* group's parts, the timers, the loop's queue and the emitted messages are
\* the same after it as before), and its result is a function of the listing
\* alone, whatever the buffer holds.
C23_ScanLeavesBuffer ==
  [][ScanStep =>
       /\ buffer' = buffer
       /\ timers' = timers
       /\ ready' = ready
       /\ emitted' = emitted
       /\ scan'.result = ScanOf(scan'.who, scan'.limit, scan'.listing)]_vars

\* a scan ran while a group was pending and that group is still pending
C23_Witness ==
  /\ Scanned
  /\ scan.pending /= {}
  /\ scan.pending \subseteq DOMAIN buffer
  /\ scan.flushed = Len(emitted)
  /\ scan.result /= <<>>

OfTheForm(fn) ==
  LET n == Len(fn)
  IN  /\ n >= 28
      /\ AllDigits(SubSeq(fn, 3, 10))
      /\ AllDigits(SubSeq(fn, 12, 17))
      /\ AllDigits(SubSeq(fn, 19, 20))
      /\ AllDigits(SubSeq(fn, n - 5, n - 4))
      /\ fn = GammuName(SubSeq(fn, 3, 10), SubSeq(fn, 12, 17), SubSeq(fn, 19, 20),
                        SubSeq(fn, 22, n - 7), SubSeq(fn, n - 5, n - 4))

SenderOf(fn) == SubSeq(fn, 22, Len(fn) - 7)

SeqFieldOf(fn) == SubSeq(fn, Len(fn) - 5, Len(fn) - 4)

HasLineBreak(s) == \E i \in 1..Len(s) : s[i] = "\n"

\* the 2-digit zero-padded rendering of a sequence number below 100
Render2(n) ==
  <<CHOOSE c \in Digits : DigitVal(c) = n \div 10, CHOOSE c \in Digits : DigitVal(c) = n % 10>>

\* the parsed fields written back as a name
Format(meta) == GammuName(meta.date, meta.time, meta.serial, meta.phone, Render2(meta.seq))

\* parse has returned the fields of the name as they stand in it
RoundTrips ==
  LET fn == parsed.name
      meta == parsed.result
  IN  /\ meta /= NoMatch
      /\ meta.date = SubSeq(fn, 3, 10)
      /\ meta.time = SubSeq(fn, 12, 17)
      /\ meta.serial = SubSeq(fn, 19, 20)
      /\ meta.phone = SenderOf(fn)
      /\ Render2(meta.seq) = SeqFieldOf(fn)
      /\ Format(meta) = fn

\* C25 as stated: every name of the form round-trips through parse, whatever
\* its sender.
C25_RoundTripAnySender ==
  parsed.returned /\ OfTheForm(parsed.name) => RoundTrips

\* C25: for every name of the form IN<8 digits>_<6 digits>_<2 digits>_<sender>_
\* <2 digits>.txt whose sender holds no line break, parse returns date, time,
\* serial and sender equal to the literal substrings of the name and a sequence
\* whose 2-digit zero-padded rendering is the literal sequence field, so that
\* formatting the parsed fields gives the name back; a name of the form whose
\* sender holds a line break is no match.
C25_RoundTrip ==
  parsed.returned /\ OfTheForm(parsed.name) =>
    IF HasLineBreak(SenderOf(parsed.name)) THEN parsed.result = NoMatch ELSE RoundTrips

C25_Witness ==
  /\ parsed.returned
  /\ parsed.name = GammuName(DateA, TimeA, <<"1", "2">>, <<"X", "_", "1">>, <<"0", "7">>)
  /\ parsed.result.phone = <<"X", "_", "1">>
  /\ parsed.result.seq = 7

\* C26: for every name that is not of the fixed form (wrong prefix, missing
\* .txt suffix, wrong field widths, a non-digit in date, time, serial or
\* sequence) parse returns none.
C26_NoMatchReturnsNone ==
  parsed.returned /\ ~OfTheForm(parsed.name) => parsed.result = NoMatch

\* ---------------------------------------------------------- monitor_inbox
\* C27: monitor_inbox manages its own watcher: the observer runs only while
\* the consumer iterates, the messages yielded are the messages put on the
\* queue, each once and in flush order, and once the consumer has left the
\* iteration the observer is stopped and joined.
C27_MonitorOwnsWatcher ==
  impl = "sdk" =>
    /\ observer = "alive" => consumer.at \in {"iterating", "holding"}
    /\ consumer.at = "left" => observer = "stopped"
    /\ consumer.got = [k \in 1..Len(consumer.got) |-> k]
    /\ \A i \in 1..Len(emitted) :
         emitted[i].status = "yielded" <=> i <= Len(consumer.got)

\* the timers scheduled by the segments of message i
OwnTimers(i) == {emitted[i].parts[n].timer : n \in 1..Len(emitted[i].parts)}

\* C28: a group created for a key after an earlier group of the key was
\* flushed is flushed by a timer that one of its own segments scheduled, never
\* by a timer left over from the earlier group, and so not sooner than Timeout
\* after its last segment.
C28_FlushedByOwnTimer ==
  \A i \in Messages :
    EarlierSameKey(i) /= {} => emitted[i].by \in OwnTimers(i) /\ emitted[i].age = Timeout

\* the files whose segments the pending group of a key holds in buffer b
GroupSources(b, key) ==
  IF key \in DOMAIN b THEN {b[key].parts[n].src : n \in 1..Len(b[key].parts)} ELSE {}

\* a step in which add_part has run for the key
AddedTo(key) ==
  /\ key \in DOMAIN buffer'
  /\ key \in DOMAIN buffer => Len(buffer'[key].parts) > Len(buffer[key].parts)

\* C29: the flush takes the group out of the buffer map before it hands the
\* message to the sink: the step that emits a message leaves its key absent,
\* and an add_part for the key that runs while the delivery is in progress
\* leaves the message as it is and puts its segment in a group that shares
\* no segment with the message, a new group when it finds the key absent.
C29_PopBeforeHandOff ==
  [][/\ Len(emitted') > Len(emitted) =>
          emitted'[Len(emitted')].key \notin DOMAIN buffer'
     /\ \A i \in Messages :
          (emitted[i].status = "pending" /\ AddedTo(emitted[i].key)) =>
             /\ emitted'[i].parts = emitted[i].parts
             /\ emitted'[i].text = emitted[i].text
             /\ GroupSources(buffer', emitted[i].key) \cap Sources(i) = {}
             /\ emitted[i].key \notin DOMAIN buffer =>
                  /\ Len(buffer'[emitted[i].key].parts) = 1
                  /\ created' = created + 1
                  /\ buffer'[emitted[i].key].parts[1].after > Cardinality(EarlierSameKey(i))]_vars

\* a delivery is in progress and a segment added meanwhile waits in a new
\* group of the same key
C29_Witness ==
  \E i \in Messages :
    /\ emitted[i].status = "pending"
    /\ emitted[i].key \in DOMAIN buffer
    /\ buffer[emitted[i].key].parts[1].after = Cardinality(EarlierSameKey(i)) + 1
    /\ GroupSources(buffer, emitted[i].key) \cap Sources(i) = {}

\* the keys of the segments the environment may add
Keys == {KeyOf(f) : f \in {g \in Files : parse_filename(SpoolEntry(g).name) /= NoMatch}}

\* C30: while the event loop keeps running and the watcher is not stopped,
\* once the finitely many segments have been added every pending group is
\* eventually flushed, and the buffer map eventually is empty and stays so.
C30_EventuallyDrained ==
  /\ \A k \in Keys : (k \in DOMAIN buffer) ~> (k \notin DOMAIN buffer)
  /\ <>[](DOMAIN buffer = {})

\* every segment of the run has been added and flushed, and the loop is idle
C30_Witness ==
  /\ DOMAIN buffer = {}
  /\ ready = <<>>
  /\ \A f \in env.paths : addCalls[f] = 1
  /\ \A f \in env.paths : \E i \in Messages : f \in Sources(i)

\* ------------------------------------------------------------- the buffer
\* C31: every group in the buffer map has at least one part and has a live
\* debounce timer or a flush task already created for its key, also when
\* add_part was called on an assembler whose loop was not set.
C31_GroupHasFlushScheduled ==
  \A key \in DOMAIN buffer :
    /\ Len(buffer[key].parts) >= 1
    /\ LiveTimers(key) /= {} \/ FlushPending(key)

\* the parts or the timer of the key's group are not the same after the step
GroupChanged(key) ==
  \/ (key \in DOMAIN buffer) /= (key \in DOMAIN buffer')
  \/ /\ key \in DOMAIN buffer
     /\ key \in DOMAIN buffer'
     /\ \/ buffer'[key].parts /= buffer[key].parts
        \/ buffer'[key].timer /= buffer[key].timer

\* C32: groups are isolated: a step that adds a part to the group of a key or
\* flushes it leaves the parts and the timer of every other key, and the
\* handles of every other key, as they were, and the message emitted for a
\* key is made of the parts of that key's group and of nothing else.
C32_GroupsIsolated ==
  [][/\ \A k \in DOMAIN buffer \cup DOMAIN buffer' :
          GroupChanged(k) =>
            /\ \A k2 \in (DOMAIN buffer \cup DOMAIN buffer') \ {k} : ~GroupChanged(k2)
            /\ \A id \in 1..Len(timers) : timers[id].key /= k => timers'[id] = timers[id]
            /\ \A id \in (Len(timers) + 1)..Len(timers') : timers'[id].key = k
     /\ Len(emitted') > Len(emitted) =>
          LET m == emitted'[Len(emitted')]
          IN  /\ m.parts = buffer[m.key].parts
              /\ m.text = Join(SortBySeq(m.parts))
              /\ \A n \in 1..Len(m.parts) : KeyOf(m.parts[n].src) = m.key
              /\ \A k2 \in DOMAIN buffer \ {m.key} :
                   k2 \in DOMAIN buffer' /\ buffer'[k2] = buffer[k2]]_vars

\* a message of one key was flushed while the group of another key, older
\* than the timer that flushed it, is still pending with its part
C32_Witness ==
  \E i \in Messages :
    \E k \in DOMAIN buffer :
      /\ k /= emitted[i].key
      /\ buffer[k].timer /= NoTimer
      /\ buffer[k].timer < emitted[i].by
      /\ timers[buffer[k].timer].state = "scheduled"
      /\ \A n \in 1..Len(buffer[k].parts) : KeyOf(buffer[k].parts[n].src) = k

\* ------------------------------------------------- live path and scan path
\* message i of the live path and entry r of the scan's result are made of the
\* same files, which share one (date, time, sender, serial) and differ in
\* their sequence numbers
SameComplete(i, r) ==
  /\ scan.result[r].stored = Sources(i)
  /\ \A f, g \in Sources(i) :
       f /= g => parse_filename(SpoolEntry(f).name).seq /= parse_filename(SpoolEntry(g).name).seq

C34_StopNeverStuck ==
  threads.main = "joining" =>
    /\ threads.watcher = "handling" => ENABLED handoff
    /\ threads.watcher = "idle" => ENABLED watcher_exit
    /\ threads.watcher = "exited" => ENABLED join_return

\* stop was called while the watcher was inside on_created, the hand-off was
\* made all the same, and stop has returned
C34_Witness ==
  /\ observer = "stopped"
  /\ threads.main = "running"
  /\ threads.overlapped
  /\ threads.watcher = "exited"
  /\ \E i \in 1..Len(ready) : ready[i].kind \in {"add_part", "spawn"}

\* ------------------------------------------------------------------ scan
\* what the caller sees of a result: ts, sender and text of each message
Plain(res) ==
  [i \in 1..Len(res) |-> [ts |-> res[i].ts, sender |-> res[i].sender, text |-> res[i].text]]

\* C35: a scan is determined by the directory's contents and the limit: in
\* whatever order os.listdir enumerates the same files, the messages returned
\* are the same and in the same order, also when groups have equal timestamps
\* and the limit cuts between them.
C35_ScanDeterministic ==
  (Scanned /\ inbox.dir = "present") =>
    \A l \in Listings(spool \ scan.unreadable) : Plain(Rescan(l)) = Plain(scan.result)

\* C36: for every integer limit, zero and the negative ones included, a scan
\* returns at most max(limit, 0) messages.
C36_AtMostLimit ==
  Scanned => Len(scan.result) <= IF scan.limit > 0 THEN scan.limit ELSE 0

\* ------------------------------------------------------- equal sequences
\* text is the texts of parts laid end to end by ascending sequence number,
\* parts of equal sequence number in the order they were added
IsStableConcat(parts, text) ==
  \E p \in [1..Len(parts) -> 1..Len(parts)] :
    /\ \A a, b \in 1..Len(parts) : a /= b => p[a] /= p[b]
    /\ \A a, b \in 1..Len(parts) :
         a < b => \/ parts[p[a]].seq < parts[p[b]].seq
                  \/ parts[p[a]].seq = parts[p[b]].seq /\ p[a] < p[b]
    /\ text = TextAlong(parts, p, Len(parts))

Underscores(s) == Cardinality({i \in 1..Len(s) : s[i] = "_"})

\* the sender holds an underscore or a digit
AwkwardSender(s) == \E i \in 1..Len(s) : s[i] = "_" \/ s[i] \in Digits

\* C38: for a valid name whose sender holds underscores or digits, parse
\* gives the first three fixed-width fields as date, time and serial, the two
\* digits before .txt as the sequence, and all that lies between the fourth
\* underscore and the last one, underscores included, as the sender.
C38_GreedySender ==
  LET fn == parsed.name
      meta == parsed.result
  IN  ( /\ parsed.returned
        /\ OfTheForm(fn)
        /\ ~HasLineBreak(SenderOf(fn))
        /\ AwkwardSender(SenderOf(fn)) ) =>
          /\ meta /= NoMatch
          /\ Len(meta.date) = 8 /\ Len(meta.time) = 6 /\ Len(meta.serial) = 2
          /\ fn = <<"I", "N">> \o meta.date \o <<"_">> \o meta.time \o <<"_">> \o meta.serial
                    \o <<"_">> \o meta.phone \o <<"_">> \o SeqFieldOf(fn) \o <<".", "t", "x", "t">>
          /\ meta.seq = 10 * DigitVal(fn[Len(fn) - 5]) + DigitVal(fn[Len(fn) - 4])
          /\ Underscores(meta.phone) = Underscores(fn) - 4

\* a sender that ends like a sequence field, "_11", was taken whole and the
\* sequence read from the field after it
C38_Witness ==
  /\ parsed.returned
  /\ parsed.name = GammuName(DateA, TimeA, <<"0", "0">>, <<"_", "1", "1">>, <<"0", "7">>)
  /\ parsed.result /= NoMatch
  /\ parsed.result.phone = <<"_", "1", "1">>
  /\ parsed.result.seq = 7

====
